---- MODULE Spec2Model ----
(***************************************************************************)
(* Coloring dynamics on graphs (graph_dynamics.py): the four update rules  *)
(* (majority, plurality, GSL2, GSL3), the trajectory driver run_rule and   *)
(* the batch driver run_rule_many_times, and the degree-preserving         *)
(* rewiring maslov_sneppen.                                                *)
(*                                                                         *)
(* A graph is a record [verts, directed, edges]; a coloring is a function  *)
(* from the vertices to colors; a Counter is a function from every color   *)
(* to a count (a missing key of a Python Counter reads as 0).  A threshold *)
(* (T, t, s) is a fraction <<numerator, denominator>> with a positive      *)
(* denominator; the thresholds used are dyadic, so the float products and  *)
(* comparisons of the source are exact and are modelled by integer         *)
(* cross-multiplication.  A Python exception is an error name carried in   *)
(* the result of the call.                                                 *)
(***************************************************************************)
EXTENDS Integers, Sequences, FiniteSets, TLC

VARIABLES
    graph,                  \* the graph the rule is applied to
    update_rule,            \* name of the update rule function
    update_rule_kwargs,     \* keyword arguments passed to the rule
    order,                  \* enumeration order of a Counter's keys
    coloring,               \* the (initial) coloring given to the call
    num_steps,              \* the num_steps argument of the call
    pc,                     \* "ready" before the call, "done" after it
    error,                  \* exception raised by the call, or "none"
    new_coloring,           \* coloring returned by a rule call
    s,                      \* trajectory returned by run_rule
    stabilized,             \* flag returned by run_rule
    evals,                  \* number of rule evaluations run_rule made
    num_runs,               \* the num_runs argument of the batch driver
    bias,                   \* colors the coloring function draws from
    runs,                   \* trials of the batch done so far
    step_counts,            \* batch: len(s) of each stabilized trial
    initial_color_counts,   \* batch: color_count(s[0]) of each such trial
    final_color_counts,     \* batch: color_count(s[-1]) of each such trial
    within_budget,          \* history: trials whose run reaches a fixed point
                            \* within num_steps rule applications
    stats,                  \* the tuple returned by the batch driver
    input_graph,            \* history: the graph maslov_sneppen was given
    step,                   \* maslov_sneppen: iterations of its loop done
    e1,                     \* maslov_sneppen: first edge drawn in the last step
    e2                      \* maslov_sneppen: second edge drawn in the last step

vars == <<graph, update_rule, update_rule_kwargs, order, coloring, num_steps,
          pc, error, new_coloring, s, stabilized, evals, num_runs, bias, runs,
          step_counts, initial_color_counts, final_color_counts,
          within_budget, stats, input_graph, step, e1, e2>>

(***************************************************************************)
(* Bounds of the model.                                                    *)
(***************************************************************************)
NumVerts == 5       \* vertices of the graphs one rule application is given
MaxVerts == 3       \* vertices of the graphs of GSL3 calls and of runs
MaxSteps == 3       \* largest num_steps argument of run_rule
BatchVerts == 2     \* vertices of the graphs of a batch
BatchSteps == 2     \* largest num_steps argument of a batch
MaxRuns == 2        \* largest num_runs argument
RewireVerts == 4    \* vertices of the graphs that are rewired
RewireEdges == 2    \* most edges of a graph that is rewired
RewireSteps == 2    \* largest explicit num_steps argument of maslov_sneppen

(***************************************************************************)
(* Colors and thresholds.                                                  *)
(***************************************************************************)
AllColors == {"green", "red", "yellow", "blue"}
BaseColors == {"green", "red", "yellow"}

Range(f) == {f[k] : k \in DOMAIN f}

Half == <<1, 2>>
Quarter == <<1, 4>>
Thresholds == {<<0, 1>>, <<1, 4>>, <<1, 2>>, <<3, 4>>, <<1, 1>>}
BadThresholds == {<<-1, 4>>, <<5, 4>>}

\* count > q * n
MoreThan(count, q, n) == count * q[2] > q[1] * n
\* count < q * n
LessThan(count, q, n) == count * q[2] < q[1] * n
\* count >= q * n
AtLeast(count, q, n) == count * q[2] >= q[1] * n
\* 0 <= q <= 1
InUnit(q) == 0 <= q[1] /\ q[1] <= q[2]
\* a + b <= c
SumAtMost(a, b, c) == a[1] * b[2] * c[2] + b[1] * a[2] * c[2] <= c[1] * a[2] * b[2]

(***************************************************************************)
(* Graphs on the vertices 1..n: a hub (vertex 1) joined to the leaves      *)
(* 2..k, undirected, or directed with every arc pointing at the hub and an *)
(* optional arc from the hub back to vertex 2.                             *)
(***************************************************************************)
HubEdges(k) == {<<j, 1>> : j \in 2..k}
BackArcs(n) == IF n >= 2 THEN {{}, {<<1, 2>>}} ELSE {{}}

Graphs(n) ==
    {[verts |-> 1..n, directed |-> FALSE, edges |-> HubEdges(k)] : k \in 1..n}
    \cup
    {[verts |-> 1..n, directed |-> TRUE, edges |-> HubEdges(k) \cup B] :
        k \in 1..n, B \in BackArcs(n)}

\* G.neighbor_in_iterator(x) if G is directed, else G.neighbor_iterator(x)
neighbor_iter(G, x) ==
    IF G.directed
    THEN {y \in G.verts : <<y, x>> \in G.edges}
    ELSE {y \in G.verts : <<x, y>> \in G.edges \/ <<y, x>> \in G.edges}

(***************************************************************************)
(* Counters.                                                               *)
(***************************************************************************)
RECURSIVE SumValues(_, _)
SumValues(cnt, keys) ==
    IF keys = {} THEN 0
    ELSE LET k == CHOOSE k \in keys : TRUE
         IN cnt[k] + SumValues(cnt, keys \ {k})

\* sum(counter.values())
CounterTotal(cnt) == SumValues(cnt, DOMAIN cnt)

\* Counter of the colors of x's neighbors whose color is in `tallied`
nb_color_count(G, c, x, tallied) ==
    [col \in AllColors |->
        IF col \in tallied
        THEN Cardinality({y \in neighbor_iter(G, x) : c[y] = col})
        ELSE 0]

\* color_count counting each color of the coloring once
color_count_distinct(c) ==
    [col \in AllColors |-> IF \E x \in DOMAIN c : c[x] = col THEN 1 ELSE 0]

color_count(c) ==
    [col \in AllColors |-> Cardinality({x \in DOMAIN c : c[x] = col})]

\* nb_color_count.most_common(1)[0], or (None, 0) on IndexError: the first key
\* in the Counter's enumeration order `ord` among those of the highest count
most_common(cnt, ord) ==
    LET keys == {k \in 1..Len(ord) : cnt[ord[k]] > 0}
        best == {k \in keys : \A j \in keys : cnt[ord[j]] <= cnt[ord[k]]}
    IN IF keys = {}
       THEN [max_color |-> "None", max_count |-> 0]
       ELSE LET k == CHOOSE k \in best : \A j \in best : k <= j
            IN [max_color |-> ord[k], max_count |-> cnt[ord[k]]]

(***************************************************************************)
(* Results of a rule call.                                                 *)
(***************************************************************************)
Return(c) == [error |-> "none", coloring |-> c]
Raise(e) == [error |-> e, coloring |-> <<>>]

(***************************************************************************)
(* The update rules.                                                       *)
(***************************************************************************)
\* majority_rule adopting a color held by at least half of the neighbors
majority_rule_half(G, c, ord) ==
    Return([x \in G.verts |->
        LET cnt == nb_color_count(G, c, x, AllColors)
            mc == most_common(cnt, ord)
            num_neighbors == CounterTotal(cnt)
        IN IF AtLeast(mc.max_count, Half, num_neighbors)
           THEN mc.max_color
           ELSE c[x]])

majority_rule(G, c, ord) ==
    Return([x \in G.verts |->
        LET cnt == nb_color_count(G, c, x, AllColors)
            mc == most_common(cnt, ord)
            num_neighbors == CounterTotal(cnt)
        IN IF MoreThan(mc.max_count, Half, num_neighbors)
           THEN mc.max_color
           ELSE c[x]])

plurality_rule(G, c, ord) ==
    Return([x \in G.verts |->
        LET cnt == nb_color_count(G, c, x, AllColors)
            mc == most_common(cnt, ord)
        IN IF mc.max_count > 1
           THEN mc.max_color
           ELSE c[x]])

\* gsl2_rule where a vertex that fails the test turns yellow
gsl2_rule_revert(G, c, palette, T) ==
    IF Cardinality(Range(palette)) # 2 THEN Raise("AssertionError")
    ELSE IF ~InUnit(T) THEN Raise("AssertionError")
    ELSE
    LET green == palette[1]
        yellow == palette[2]
    IN Return([x \in G.verts |->
        LET cnt == nb_color_count(G, c, x, {green, yellow})
            num_neighbors == CounterTotal(cnt)
            x_color == c[x]
        IN IF MoreThan(cnt[green], T, num_neighbors)
           THEN green
           ELSE yellow])

\* gsl2_rule tallying every neighbor, whatever its color
gsl2_rule_all(G, c, palette, T) ==
    IF Cardinality(Range(palette)) # 2 THEN Raise("AssertionError")
    ELSE IF ~InUnit(T) THEN Raise("AssertionError")
    ELSE
    LET green == palette[1]
        yellow == palette[2]
    IN Return([x \in G.verts |->
        LET cnt == nb_color_count(G, c, x, AllColors)
            num_neighbors == CounterTotal(cnt)
            x_color == c[x]
        IN IF MoreThan(cnt[green], T, num_neighbors)
           THEN green
           ELSE x_color])

gsl2_rule(G, c, palette, T) ==
    IF Cardinality(Range(palette)) # 2 THEN Raise("AssertionError")
    ELSE IF ~InUnit(T) THEN Raise("AssertionError")
    ELSE
    LET green == palette[1]
        yellow == palette[2]
    IN Return([x \in G.verts |->
        LET cnt == nb_color_count(G, c, x, {green, yellow})
            num_neighbors == CounterTotal(cnt)
            x_color == c[x]
        IN IF MoreThan(cnt[green], T, num_neighbors)
           THEN green
           ELSE x_color])

\* gsl3_rule testing weak influence before strong influence
gsl3_rule_weak_first(G, c, palette, T, t, s_) ==
    IF Cardinality(Range(palette)) # 3 THEN Raise("AssertionError")
    ELSE IF ~(InUnit(T) /\ InUnit(s_) /\ InUnit(t)) THEN Raise("AssertionError")
    ELSE IF ~SumAtMost(s_, t, T) THEN Raise("AssertionError")
    ELSE
    LET green == palette[1]
        red == palette[2]
        yellow == palette[3]
    IN Return([x \in G.verts |->
        LET cnt == nb_color_count(G, c, x, AllColors)
            num_neighbors == CounterTotal(cnt)
            x_color == c[x]
        IN IF x_color = green /\ LessThan(cnt[green], t, num_neighbors)
                   /\ AtLeast(cnt[red], s_, num_neighbors) THEN yellow
           ELSE IF x_color = red /\ LessThan(cnt[red], t, num_neighbors)
                   /\ AtLeast(cnt[green], s_, num_neighbors) THEN yellow
           ELSE IF MoreThan(cnt[green], T, num_neighbors) THEN green
           ELSE IF MoreThan(cnt[red], T, num_neighbors) THEN red
           ELSE x_color])

\* gsl3_rule without the assertion s + t <= T
gsl3_rule_no_sum_check(G, c, palette, T, t, s_) ==
    IF Cardinality(Range(palette)) # 3 THEN Raise("AssertionError")
    ELSE IF ~(InUnit(T) /\ InUnit(s_) /\ InUnit(t)) THEN Raise("AssertionError")
    ELSE
    LET green == palette[1]
        red == palette[2]
        yellow == palette[3]
    IN Return([x \in G.verts |->
        LET cnt == nb_color_count(G, c, x, AllColors)
            num_neighbors == CounterTotal(cnt)
            x_color == c[x]
        IN IF MoreThan(cnt[green], T, num_neighbors) THEN green
           ELSE IF MoreThan(cnt[red], T, num_neighbors) THEN red
           ELSE IF x_color = green /\ LessThan(cnt[green], t, num_neighbors)
                   /\ AtLeast(cnt[red], s_, num_neighbors) THEN yellow
           ELSE IF x_color = red /\ LessThan(cnt[red], t, num_neighbors)
                   /\ AtLeast(cnt[green], s_, num_neighbors) THEN yellow
           ELSE x_color])

gsl3_rule(G, c, palette, T, t, s_) ==
    IF Cardinality(Range(palette)) # 3 THEN Raise("AssertionError")
    ELSE IF ~(InUnit(T) /\ InUnit(s_) /\ InUnit(t)) THEN Raise("AssertionError")
    ELSE IF ~SumAtMost(s_, t, T) THEN Raise("AssertionError")
    ELSE
    LET green == palette[1]
        red == palette[2]
        yellow == palette[3]
    IN Return([x \in G.verts |->
        LET cnt == nb_color_count(G, c, x, AllColors)
            num_neighbors == CounterTotal(cnt)
            x_color == c[x]
        IN IF MoreThan(cnt[green], T, num_neighbors) THEN green
           ELSE IF MoreThan(cnt[red], T, num_neighbors) THEN red
           ELSE IF x_color = green /\ LessThan(cnt[green], t, num_neighbors)
                   /\ AtLeast(cnt[red], s_, num_neighbors) THEN yellow
           ELSE IF x_color = red /\ LessThan(cnt[red], t, num_neighbors)
                   /\ AtLeast(cnt[green], s_, num_neighbors) THEN yellow
           ELSE x_color])

(***************************************************************************)
(* Keyword arguments: `keys` are the names present in the dict; a name     *)
(* that is absent takes the default of the rule's signature.               *)
(***************************************************************************)
Kwargs(keys, palette, T, t, s_) ==
    [keys |-> keys, palette |-> palette, T |-> T, t |-> t, s |-> s_]

Accepted(ur) ==
    CASE ur = "majority_rule" -> {}
      [] ur = "plurality_rule" -> {}
      [] ur = "gsl2_rule" -> {"palette", "T"}
      [] ur = "gsl3_rule" -> {"palette", "T", "t", "s"}

Arg(urk, key, default) == IF key \in urk.keys THEN urk[key] ELSE default

\* update_rule(graph, c, **update_rule_kwargs)
CallRule(ur, urk, G, c, ord) ==
    IF ~(urk.keys \subseteq Accepted(ur)) THEN Raise("TypeError")
    ELSE CASE ur = "majority_rule" -> majority_rule(G, c, ord)
           [] ur = "plurality_rule" -> plurality_rule(G, c, ord)
           [] ur = "gsl2_rule" ->
                gsl2_rule(G, c, Arg(urk, "palette", <<"green", "yellow">>),
                          Arg(urk, "T", Half))
           [] ur = "gsl3_rule" ->
                gsl3_rule(G, c, Arg(urk, "palette", <<"green", "red", "yellow">>),
                          Arg(urk, "T", Half), Arg(urk, "t", Quarter),
                          Arg(urk, "s", Quarter))

(***************************************************************************)
(* One rule application: update_rule(graph, coloring, **kwargs).           *)
(***************************************************************************)
NoKwargs == Kwargs({}, <<"green", "yellow">>, Half, Quarter, Quarter)

Kwargs2(palette, T) == Kwargs({"palette", "T"}, palette, T, Quarter, Quarter)
Kwargs3(palette, T, t, s_) == Kwargs({"palette", "T", "t", "s"}, palette, T, t, s_)

Palette2 == <<"green", "yellow">>
Palette3 == <<"green", "red", "yellow">>
BadPalettes2 == {<<"green">>, <<"green", "green">>, Palette3}
BadPalettes3 == {Palette2, <<"green", "red", "red">>, <<"green", "red", "yellow", "blue">>}

ValidKwargs2 == {Kwargs2(Palette2, T) : T \in Thresholds}
InvalidKwargs2 ==
    {Kwargs2(p, Half) : p \in BadPalettes2}
    \cup {Kwargs2(Palette2, T) : T \in BadThresholds}

Triples == Thresholds \X Thresholds \X Thresholds
ValidKwargs3 ==
    {Kwargs3(Palette3, q[1], q[2], q[3]) :
        q \in {q \in Triples : SumAtMost(q[3], q[2], q[1])}}
InvalidKwargs3 ==
    {Kwargs3(p, Half, Quarter, Quarter) : p \in BadPalettes3}
    \cup {Kwargs3(Palette3, T, Quarter, Quarter) : T \in BadThresholds}
    \cup {Kwargs3(Palette3, Half, t, Quarter) : t \in BadThresholds}
    \cup {Kwargs3(Palette3, Half, Quarter, s_) : s_ \in BadThresholds}
    \cup {Kwargs3(Palette3, q[1], q[2], q[3]) :
            q \in {<<Half, Half, Quarter>>, <<Quarter, Quarter, Quarter>>,
                   <<Quarter, <<0, 1>>, Half>>}}

ColorOrder == <<"green", "red", "yellow", "blue">>
Orders == {ColorOrder, <<"blue", "yellow", "red", "green">>}

NotRewiring == input_graph = <<>> /\ step = 0 /\ e1 = <<>> /\ e2 = <<>>

Idle ==
    /\ s = <<>> /\ stabilized = FALSE /\ evals = 0
    /\ num_runs = 0 /\ runs = 0 /\ bias = {}
    /\ step_counts = <<>> /\ initial_color_counts = <<>>
    /\ final_color_counts = <<>> /\ within_budget = 0 /\ stats = <<>>
    /\ NotRewiring

InitRule ==
    /\ pc = "ready" /\ error = "none" /\ new_coloring = <<>> /\ num_steps = 0
    /\ Idle
    /\ \/ /\ update_rule \in {"majority_rule", "plurality_rule"}
          /\ update_rule_kwargs = NoKwargs
          /\ graph \in Graphs(NumVerts)
          /\ coloring \in [graph.verts -> BaseColors]
          /\ order \in Orders
       \/ /\ update_rule = "gsl2_rule"
          /\ update_rule_kwargs \in ValidKwargs2 \cup InvalidKwargs2
          /\ graph \in Graphs(NumVerts)
          /\ coloring \in [graph.verts -> BaseColors]
          /\ order = ColorOrder
       \/ /\ update_rule = "gsl3_rule"
          /\ update_rule_kwargs \in ValidKwargs3 \cup InvalidKwargs3
          /\ graph \in Graphs(MaxVerts)
          /\ coloring \in [graph.verts -> AllColors]
          /\ order = ColorOrder

Apply(ur) ==
    /\ pc = "ready"
    /\ update_rule = ur
    /\ LET r == CallRule(ur, update_rule_kwargs, graph, coloring, order)
       IN /\ new_coloring' = r.coloring
          /\ error' = r.error
    /\ pc' = "done"
    /\ UNCHANGED <<graph, update_rule, update_rule_kwargs, order, coloring,
                   num_steps, s, stabilized, evals, num_runs, bias, runs, step_counts,
                   initial_color_counts, final_color_counts, within_budget, stats,
                   input_graph, step, e1, e2>>

ApplyMajority == Apply("majority_rule")
ApplyPlurality == Apply("plurality_rule")
ApplyGsl2 == Apply("gsl2_rule")
ApplyGsl3 == Apply("gsl3_rule")

NextRule == ApplyMajority \/ ApplyPlurality \/ ApplyGsl2 \/ ApplyGsl3

SpecRule == InitRule /\ [][NextRule]_vars

(***************************************************************************)
(* run_rule: the trajectory driver.                                        *)
(***************************************************************************)
DefaultNumSteps == 10

RECURSIVE run_rule_loop_dup(_, _, _, _, _, _, _)
\* run_rule_loop appending c_new before the test for stabilization
run_rule_loop_dup(ur, urk, G, ord, traj, i, n_steps) ==
    IF i >= n_steps
    THEN [s |-> traj, stabilized |-> FALSE, evals |-> i, error |-> "none"]
    ELSE LET c_old == traj[Len(traj)]
             r == CallRule(ur, urk, G, c_old, ord)
             c_new == r.coloring
         IN IF r.error # "none"
            THEN [s |-> <<>>, stabilized |-> FALSE, evals |-> i + 1,
                  error |-> r.error]
            ELSE IF c_old = c_new
            THEN [s |-> Append(traj, c_new), stabilized |-> TRUE,
                  evals |-> i + 1, error |-> "none"]
            ELSE run_rule_loop_dup(ur, urk, G, ord, Append(traj, c_new), i + 1,
                                   n_steps)

RECURSIVE run_rule_loop_extra(_, _, _, _, _, _, _)
\* run_rule_loop iterating over range(n_steps + 1)
run_rule_loop_extra(ur, urk, G, ord, traj, i, n_steps) ==
    IF i > n_steps
    THEN [s |-> traj, stabilized |-> FALSE, evals |-> i, error |-> "none"]
    ELSE LET c_old == traj[Len(traj)]
             r == CallRule(ur, urk, G, c_old, ord)
             c_new == r.coloring
         IN IF r.error # "none"
            THEN [s |-> <<>>, stabilized |-> FALSE, evals |-> i + 1,
                  error |-> r.error]
            ELSE IF c_old = c_new
            THEN [s |-> traj, stabilized |-> TRUE, evals |-> i + 1,
                  error |-> "none"]
            ELSE run_rule_loop_extra(ur, urk, G, ord, Append(traj, c_new), i + 1,
                                     n_steps)

RECURSIVE run_rule_loop(_, _, _, _, _, _, _)
\* the loop `for i in range(n_steps)` from iteration i on, with trajectory traj
run_rule_loop(ur, urk, G, ord, traj, i, n_steps) ==
    IF i >= n_steps
    THEN [s |-> traj, stabilized |-> FALSE, evals |-> i, error |-> "none"]
    ELSE LET c_old == traj[Len(traj)]
             r == CallRule(ur, urk, G, c_old, ord)
             c_new == r.coloring
         IN IF r.error # "none"
            THEN [s |-> <<>>, stabilized |-> FALSE, evals |-> i + 1,
                  error |-> r.error]
            ELSE IF c_old = c_new
            THEN [s |-> traj, stabilized |-> TRUE, evals |-> i + 1,
                  error |-> "none"]
            ELSE run_rule_loop(ur, urk, G, ord, Append(traj, c_new), i + 1, n_steps)

run_rule(ur, urk, G, ord, initial_coloring, n_steps) ==
    run_rule_loop(ur, urk, G, ord, <<initial_coloring>>, 0, n_steps)

RunKwargs3 ==
    {Kwargs3(Palette3, q[1], q[2], q[3]) :
        q \in {<<Half, Quarter, Quarter>>, <<Half, Half, <<0, 1>>>>,
               <<<<3, 4>>, Half, Quarter>>, <<<<1, 1>>, Half, Half>>}}

RunKwargs(ur) ==
    CASE ur = "majority_rule" -> {NoKwargs}
      [] ur = "plurality_rule" -> {NoKwargs}
      [] ur = "gsl2_rule" -> ValidKwargs2
      [] ur = "gsl3_rule" -> RunKwargs3

Rules == {"majority_rule", "plurality_rule", "gsl2_rule", "gsl3_rule"}

InitRun ==
    /\ pc = "ready" /\ error = "none" /\ new_coloring = <<>>
    /\ Idle
    /\ update_rule \in Rules
    /\ update_rule_kwargs \in RunKwargs(update_rule)
    /\ graph \in Graphs(MaxVerts)
    /\ coloring \in [graph.verts -> BaseColors]
    /\ order \in Orders
    /\ num_steps \in 0..MaxSteps

RunRule ==
    /\ pc = "ready"
    /\ LET r == run_rule(update_rule, update_rule_kwargs, graph, order,
                         coloring, num_steps)
       IN /\ s' = r.s
          /\ stabilized' = r.stabilized
          /\ evals' = r.evals
          /\ error' = r.error
    /\ pc' = "done"
    /\ UNCHANGED <<graph, update_rule, update_rule_kwargs, order, coloring,
                   num_steps, new_coloring, num_runs, bias, runs, step_counts,
                   initial_color_counts, final_color_counts, within_budget,
                   stats, input_graph, step, e1, e2>>

NextRun == RunRule

SpecRun == InitRun /\ [][NextRun]_vars

(***************************************************************************)
(* run_rule_many_times: the batch driver.  The graph generator is          *)
(* deterministic (as the lattice generators are) and the coloring function *)
(* is color_randomly, which gives each vertex any color of the bias.       *)
(* A mean is the fraction <<sum, N>>.                                      *)
(***************************************************************************)
color_randomly(G, colors) == [G.verts -> colors]

RECURSIVE SumSeq(_)
\* sum(step_counts)
SumSeq(q) == IF q = <<>> THEN 0 ELSE q[1] + SumSeq(Tail(q))

RECURSIVE SumColor(_, _)
\* sum(c[color] for c in counts)
SumColor(counts, col) ==
    IF counts = <<>> THEN 0 ELSE counts[1][col] + SumColor(Tail(counts), col)

\* Counter({color: sum(c[color] for c in counts)/N for color in palette})
MeanColorCount(counts, palette, N) ==
    [col \in Range(palette) |-> <<SumColor(counts, col), N>>]

BatchCalls ==
    {<<"majority_rule", NoKwargs>>,
     <<"majority_rule", Kwargs({"palette"}, Palette3, Half, Quarter, Quarter)>>,
     <<"plurality_rule", NoKwargs>>,
     <<"gsl2_rule", Kwargs2(Palette2, Half)>>,
     <<"gsl2_rule", Kwargs({"T"}, Palette2, Half, Quarter, Quarter)>>,
     <<"gsl3_rule", Kwargs3(Palette3, Half, Quarter, Quarter)>>}

Biases == {{"green", "yellow"}, {"green", "red"}}

InitBatch ==
    /\ pc = "ready" /\ error = "none" /\ new_coloring = <<>>
    /\ s = <<>> /\ stabilized = FALSE /\ evals = 0
    /\ runs = 0 /\ step_counts = <<>> /\ initial_color_counts = <<>>
    /\ final_color_counts = <<>> /\ within_budget = 0 /\ stats = <<>>
    /\ coloring = <<>>
    /\ order = ColorOrder
    /\ NotRewiring
    /\ \E call \in BatchCalls :
        /\ update_rule = call[1]
        /\ update_rule_kwargs = call[2]
    /\ graph \in Graphs(BatchVerts)
    /\ bias \in Biases
    /\ num_steps \in 1..BatchSteps
    /\ num_runs \in 0..MaxRuns

\* one iteration of `for i in range(num_runs)`
BatchTrial ==
    /\ pc = "ready"
    /\ runs < num_runs
    /\ \E ic \in color_randomly(graph, bias) :
        LET r == run_rule(update_rule, update_rule_kwargs, graph, order, ic,
                          DefaultNumSteps)
            h == run_rule(update_rule, update_rule_kwargs, graph, order, ic,
                          num_steps)
        IN /\ coloring' = ic
           /\ IF r.error # "none"
              THEN /\ error' = r.error
                   /\ pc' = "done"
                   /\ UNCHANGED <<runs, step_counts, initial_color_counts,
                                  final_color_counts, within_budget>>
              ELSE /\ runs' = runs + 1
                   /\ within_budget' =
                        within_budget + (IF h.stabilized THEN 1 ELSE 0)
                   /\ IF r.stabilized
                      THEN /\ initial_color_counts' =
                                Append(initial_color_counts, color_count(r.s[1]))
                           /\ final_color_counts' =
                                Append(final_color_counts,
                                       color_count(r.s[Len(r.s)]))
                           /\ step_counts' = Append(step_counts, Len(r.s))
                      ELSE UNCHANGED <<step_counts, initial_color_counts,
                                       final_color_counts>>
                   /\ UNCHANGED <<error, pc>>
    /\ UNCHANGED <<graph, update_rule, update_rule_kwargs, order, num_steps,
                   new_coloring, s, stabilized, evals, num_runs, bias, stats,
                   input_graph, step, e1, e2>>

\* the code after the loop: the palette lookup, N and the means
BatchFinish ==
    /\ pc = "ready"
    /\ runs = num_runs
    /\ pc' = "done"
    /\ IF "palette" \notin update_rule_kwargs.keys
       THEN error' = "KeyError" /\ stats' = stats
       ELSE LET palette == update_rule_kwargs.palette
                N == Len(step_counts)
            IN /\ error' = error
               /\ stats' =
                    IF N = 0
                    THEN [N |-> 0, absent |-> TRUE, mean_steps |-> <<>>,
                          mean_initial_color_count |-> <<>>,
                          mean_final_color_count |-> <<>>]
                    ELSE [N |-> N, absent |-> FALSE,
                          mean_steps |-> <<SumSeq(step_counts), N>>,
                          mean_initial_color_count |->
                                MeanColorCount(initial_color_counts, palette, N),
                          mean_final_color_count |->
                                MeanColorCount(final_color_counts, palette, N)]
    /\ UNCHANGED <<graph, update_rule, update_rule_kwargs, order, coloring,
                   num_steps, new_coloring, s, stabilized, evals, num_runs, bias,
                   runs, step_counts, initial_color_counts, final_color_counts,
                   within_budget, input_graph, step, e1, e2>>

NextBatch == BatchTrial \/ BatchFinish

SpecBatch == InitBatch /\ [][NextBatch]_vars

(***************************************************************************)
(* maslov_sneppen: degree-preserving random rewiring, in place.  The graph *)
(* is simple; an undirected graph stores each edge once, as <<u, v>> with  *)
(* u < v, and random_edge may return it in either direction.               *)
(***************************************************************************)
RECURSIVE UpTo(_, _)
\* the subsets of S of at most k elements
UpTo(S, k) ==
    IF k = 0 THEN {{}}
    ELSE LET P == UpTo(S, k - 1) IN P \cup {p \cup {x} : p \in P, x \in S}

RewireGraphs ==
    LET V == 1..RewireVerts
    IN {[verts |-> V, directed |-> FALSE, edges |-> E] :
            E \in UpTo({e \in V \X V : e[1] < e[2]}, RewireEdges)}
       \cup
       {[verts |-> V, directed |-> TRUE, edges |-> E] :
            E \in UpTo({e \in V \X V : e[1] # e[2]}, RewireEdges)}

Reverse(e) == <<e[2], e[1]>>
\* an undirected edge as it is stored
Stored(e) == IF e[1] <= e[2] THEN e ELSE Reverse(e)

\* the values G.random_edge() can return
random_edge(G) ==
    IF G.directed THEN G.edges ELSE G.edges \cup {Reverse(e) : e \in G.edges}

has_edge(G, e) ==
    IF G.directed THEN e \in G.edges ELSE Stored(e) \in G.edges

delete_edge(G, e) ==
    [G EXCEPT !.edges = IF G.directed THEN @ \ {e} ELSE @ \ {Stored(e)}]

add_edge(G, e) ==
    [G EXCEPT !.edges = IF G.directed THEN @ \cup {e} ELSE @ \cup {Stored(e)}]

\* the test of lines 444-445 without its two self-loop comparisons
NotAllowed_no_loop_test(G, new_e1, new_e2) ==
    has_edge(G, new_e1) \/ has_edge(G, new_e2)

\* the test of lines 444-445: rewiring e1 and e2 is not allowed
NotAllowed(G, new_e1, new_e2) ==
    \/ new_e1[1] = new_e1[2]
    \/ new_e2[1] = new_e2[2]
    \/ has_edge(G, new_e1)
    \/ has_edge(G, new_e2)

\* one iteration of the loop, having drawn the edges a and b
rewire_step(G, a, b) ==
    LET new_e1 == <<a[1], b[2]>>
        new_e2 == <<b[1], a[2]>>
    IN IF NotAllowed(G, new_e1, new_e2)
       THEN G
       ELSE add_edge(add_edge(delete_edge(delete_edge(G, a), b), new_e1), new_e2)

InitRewire ==
    /\ pc = "ready" /\ error = "none" /\ new_coloring = <<>>
    /\ s = <<>> /\ stabilized = FALSE /\ evals = 0
    /\ num_runs = 0 /\ runs = 0 /\ bias = {}
    /\ step_counts = <<>> /\ initial_color_counts = <<>>
    /\ final_color_counts = <<>> /\ within_budget = 0 /\ stats = <<>>
    /\ update_rule = "none" /\ update_rule_kwargs = NoKwargs
    /\ order = ColorOrder /\ coloring = <<>>
    /\ graph \in RewireGraphs
    /\ input_graph = graph
    /\ step = 0 /\ e1 = <<>> /\ e2 = <<>>
    /\ \/ num_steps \in 0..RewireSteps
       \/ num_steps = 4 * Cardinality(graph.edges)

RewireUnchanged ==
    UNCHANGED <<update_rule, update_rule_kwargs, order, coloring, num_steps,
                new_coloring, s, stabilized, evals, num_runs, bias, runs,
                step_counts, initial_color_counts, final_color_counts,
                within_budget, stats, input_graph>>

\* one iteration of `for i in range(num_steps)`
RewireStep ==
    /\ pc = "ready"
    /\ step < num_steps
    /\ graph.edges # {}
    /\ \E a \in random_edge(graph), b \in random_edge(graph) :
        /\ e1' = a
        /\ e2' = b
        /\ graph' = rewire_step(graph, a, b)
    /\ step' = step + 1
    /\ UNCHANGED <<pc, error>>
    /\ RewireUnchanged

\* random_edge of a graph without edges raises
RewireNoEdge ==
    /\ pc = "ready"
    /\ step < num_steps
    /\ graph.edges = {}
    /\ error' = "ValueError"
    /\ pc' = "done"
    /\ UNCHANGED <<graph, step, e1, e2>>
    /\ RewireUnchanged

\* return G
RewireReturn ==
    /\ pc = "ready"
    /\ step = num_steps
    /\ pc' = "done"
    /\ UNCHANGED <<graph, step, e1, e2, error>>
    /\ RewireUnchanged

NextRewire == RewireStep \/ RewireNoEdge \/ RewireReturn

SpecRewire == InitRewire /\ [][NextRewire]_vars

(***************************************************************************)
(* Properties of run_rule.                                                 *)
(***************************************************************************)
\* the rule of the call applied to coloring c
RuleOf(c) == CallRule(update_rule, update_rule_kwargs, graph, c, order).coloring

Returned == pc = "done" /\ error = "none"

Held(x, col) ==
    Cardinality({y \in neighbor_iter(graph, x) : coloring[y] = col})
\* number of x's neighbors whose color is in cols
HeldIn(x, cols) ==
    Cardinality({y \in neighbor_iter(graph, x) : coloring[y] \in cols})
Degree(x) == Cardinality(neighbor_iter(graph, x))

Applied(ur) == pc = "done" /\ update_rule = ur /\ error = "none"

KwPalette == update_rule_kwargs.palette
KwT == update_rule_kwargs.T
Kwt == update_rule_kwargs.t
Kws == update_rule_kwargs.s

\* GSL3's priority list at x, over the counts gc, rc and the total n
Gsl3Cases(x, gc, rc, n) ==
    LET T == KwT
        green == KwPalette[1]
        red == KwPalette[2]
        yellow == KwPalette[3]
    IN CASE gc * T[2] > T[1] * n -> green
         [] ~(gc * T[2] > T[1] * n) /\ rc * T[2] > T[1] * n -> red
         [] OTHER ->
              IF /\ coloring[x] = green
                 /\ gc * Kwt[2] < Kwt[1] * n
                 /\ rc * Kws[2] >= Kws[1] * n
              THEN yellow
              ELSE IF /\ coloring[x] = red
                      /\ rc * Kwt[2] < Kwt[1] * n
                      /\ gc * Kws[2] >= Kws[1] * n
              THEN yellow
              ELSE coloring[x]

\* C6: GSL3 gives every vertex the color of the first matching case of the
\* priority list (strong green, strong red, green to yellow, red to yellow,
\* keep), the counts being fractions of the rule's num_neighbors: strong
\* influence wins over weak influence.
C6_Gsl3Priority ==
    Applied("gsl3_rule") =>
        \A x \in graph.verts :
            new_coloring[x] =
                Gsl3Cases(x, Held(x, KwPalette[1]), Held(x, KwPalette[2]), Degree(x))

\* a red vertex that meets both the strong-green and the red-to-yellow
\* conditions, and turns green
C6_Witness ==
    /\ Applied("gsl3_rule")
    /\ \E x \in graph.verts :
        /\ coloring[x] = "red"
        /\ Held(x, "green") * KwT[2] > KwT[1] * Degree(x)
        /\ Held(x, "red") * Kwt[2] < Kwt[1] * Degree(x)
        /\ Held(x, "green") * Kws[2] >= Kws[1] * Degree(x)
        /\ new_coloring[x] = "green"

\* C7: GSL3 tallies only the neighbors colored with a palette color: a
\* neighbor of another color counts neither for a color nor in
\* num_neighbors.
C7_Gsl3PaletteTally ==
    Applied("gsl3_rule") =>
        \A x \in graph.verts :
            new_coloring[x] =
                Gsl3Cases(x, Held(x, KwPalette[1]), Held(x, KwPalette[2]),
                          HeldIn(x, Range(KwPalette)))

\* C8: GSL2 counts in num_neighbors only the neighbors colored green or
\* yellow; x turns green if green-count > T * num_neighbors and keeps its
\* color otherwise, so the new color is green or the old one, and with
\* T = 0.5 three green neighbors and one yellow one turn x green.
C8_Gsl2 ==
    Applied("gsl2_rule") =>
        LET green == KwPalette[1]
            yellow == KwPalette[2]
        IN \A x \in graph.verts :
            LET gc == Held(x, green)
                n == HeldIn(x, {green, yellow})
            IN /\ new_coloring[x] =
                    IF gc * KwT[2] > KwT[1] * n THEN green ELSE coloring[x]
               /\ new_coloring[x] \in {green, coloring[x]}
               /\ (KwT = Half /\ gc = 3 /\ Held(x, yellow) = 1) =>
                    new_coloring[x] = green

\* a vertex that is not green, with three green, one yellow and no other
\* tallied neighbor, under T = 0.5
C8_Witness ==
    /\ Applied("gsl2_rule")
    /\ KwT = Half
    /\ \E x \in graph.verts :
        /\ coloring[x] # "green"
        /\ Held(x, "green") = 3
        /\ Held(x, "yellow") = 1
        /\ new_coloring[x] = "green"

\* C9: under the Majority rule x's new color is c exactly when c is held by
\* more than half of x's neighbors (in-neighbors if directed), or no color is
\* and c is x's old color; so ties for the most common color do not matter,
\* neighbors that all share a color give it to x, and a vertex without
\* neighbors keeps its color.
C9_Majority ==
    Applied("majority_rule") =>
        \A x \in graph.verts :
            /\ \A c \in AllColors \cup {"None"} :
                new_coloring[x] = c <=>
                    \/ 2 * Held(x, c) > Degree(x)
                    \/ /\ \A d \in AllColors : ~(2 * Held(x, d) > Degree(x))
                       /\ c = coloring[x]
            /\ (Degree(x) > 0 /\ \E c \in AllColors : Held(x, c) = Degree(x)) =>
                    Held(x, new_coloring[x]) = Degree(x)
            /\ Degree(x) = 0 => new_coloring[x] = coloring[x]

\* a vertex two colors of which tie for the most common among its neighbors,
\* neither being its own color
C9_Witness ==
    /\ Applied("majority_rule")
    /\ \E x \in graph.verts : \E c, d \in AllColors :
        /\ c # d /\ c # coloring[x] /\ d # coloring[x]
        /\ Held(x, c) = Held(x, d)
        /\ Held(x, c) >= 1
        /\ \A e \in AllColors : Held(x, e) <= Held(x, c)
        /\ new_coloring[x] = coloring[x]

InvalidParameters ==
    \/ /\ update_rule = "gsl2_rule"
       /\ \/ Cardinality({KwPalette[k] : k \in 1..Len(KwPalette)}) # 2
          \/ KwT[1] < 0
          \/ KwT[1] > KwT[2]
    \/ /\ update_rule = "gsl3_rule"
       /\ \/ Cardinality({KwPalette[k] : k \in 1..Len(KwPalette)}) # 3
          \/ \E q \in {KwT, Kwt, Kws} : q[1] < 0 \/ q[1] > q[2]
          \/ Kws[1] * Kwt[2] * KwT[2] + Kwt[1] * Kws[2] * KwT[2]
                > KwT[1] * Kws[2] * Kwt[2]

Rejected ==
    (pc = "done" /\ update_rule \in {"gsl2_rule", "gsl3_rule"}) =>
        IF InvalidParameters
        THEN error = "AssertionError" /\ new_coloring = <<>>
        ELSE error = "none" /\ DOMAIN new_coloring = graph.verts

\* C10: GSL2 and GSL3 called with a palette that has not exactly 2 (3)
\* distinct colors, with T (t, s) outside [0, 1] or, for GSL3, s + t > T fail
\* with an error, return no coloring and leave the input coloring as it was;
\* with valid parameters they raise no such error and color every vertex.
C10_Rejects == []Rejected /\ [][coloring' = coloring]_vars

\* a GSL3 call rejected only for s + t > T
C10_Witness ==
    /\ pc = "done"
    /\ update_rule = "gsl3_rule"
    /\ Cardinality(Range(KwPalette)) = 3
    /\ \A q \in {KwT, Kwt, Kws} : 0 <= q[1] /\ q[1] <= q[2]
    /\ InvalidParameters
    /\ error = "AssertionError"

(***************************************************************************)
(* Properties of run_rule_many_times.                                      *)
(***************************************************************************)
BatchReturned == pc = "done" /\ error = "none" /\ runs = num_runs /\ stats # <<>>

\* C3: each trial is run with the num_steps given to the batch driver, so the
\* stabilized count it returns is the number of trials whose trajectory
\* reaches a fixed point within num_steps rule applications.
C3_BatchBudget ==
    BatchReturned => stats.N = within_budget

\* C4: for each of the four rules with parameters the rule accepts, a batch
\* in which no trial stabilized (num_runs = 0 included) returns a stabilized
\* count of 0 with the three means absent, and raises no error.
C4_EmptyBatch ==
    (/\ pc = "done"
     /\ update_rule_kwargs.keys \subseteq Accepted(update_rule)
     /\ step_counts = <<>>)
        => /\ error = "none"
           /\ stats # <<>>
           /\ stats.N = 0
           /\ stats.absent

\* sum of the palette's per-color totals of a mean color count
PaletteTotal(mean) == SumValues([col \in DOMAIN mean |-> mean[col][1]], DOMAIN mean)

MeansSumToN ==
    /\ PaletteTotal(stats.mean_initial_color_count)
            = stats.N * Cardinality(graph.verts)
    /\ PaletteTotal(stats.mean_final_color_count)
            = stats.N * Cardinality(graph.verts)
    /\ \A col \in Range(update_rule_kwargs.palette) :
        /\ stats.mean_initial_color_count[col][2] = stats.N
        /\ stats.mean_final_color_count[col][2] = stats.N

\* C5 as stated: whenever some trial stabilized, the per-color means over the
\* rule's palette sum to the vertex count n, at the start and at the end, for
\* every initial coloring the coloring function can produce.
C5_MeansSumToN ==
    (BatchReturned /\ ~stats.absent) => MeansSumToN

\* every initial coloring of a stabilized trial uses palette colors only
InitialColorsInPalette ==
    \A k \in 1..Len(initial_color_counts) :
        \A col \in AllColors \ Range(update_rule_kwargs.palette) :
            initial_color_counts[k][col] = 0

\* C5 as amended: the per-color means over the palette sum to n, at the start
\* and at the end, when the initial colorings of the stabilized trials use
\* palette colors only.
C5_MeansSumToN_InPalette ==
    (BatchReturned /\ ~stats.absent /\ InitialColorsInPalette) => MeansSumToN

\* a batch of two stabilized trials, one of which changed its coloring
C5_Witness ==
    /\ BatchReturned
    /\ stats.N = 2
    /\ InitialColorsInPalette
    /\ initial_color_counts # final_color_counts
    /\ MeansSumToN

(***************************************************************************)
(* Properties of maslov_sneppen.                                           *)
(***************************************************************************)
Rewiring == input_graph # <<>>

OutDegree(G, v) == Cardinality({e \in G.edges : e[1] = v})
InDegree(G, v) == Cardinality({e \in G.edges : e[2] = v})

SameDegrees ==
    \A v \in graph.verts :
        IF graph.directed
        THEN /\ OutDegree(graph, v) = OutDegree(input_graph, v)
             /\ InDegree(graph, v) = InDegree(input_graph, v)
        ELSE OutDegree(graph, v) + InDegree(graph, v)
                = OutDegree(input_graph, v) + InDegree(input_graph, v)

Simple ==
    \A e \in graph.edges :
        /\ e[1] # e[2]
        /\ ~graph.directed => <<e[2], e[1]>> \notin graph.edges

DegreesPreserved ==
    Rewiring =>
        /\ SameDegrees
        /\ Cardinality(graph.edges) = Cardinality(input_graph.edges)
        /\ Simple
        /\ graph.verts = input_graph.verts
        /\ graph.directed = input_graph.directed

\* is <<u, v>> an edge of the graph
Present(u, v) ==
    \/ <<u, v>> \in graph.edges
    \/ ~graph.directed /\ <<v, u>> \in graph.edges

\* the swap of the drawn edges a and b would give a self-loop or an edge the
\* graph has
SwapRefused(a, b) ==
    \/ a[1] = b[2]
    \/ b[1] = a[2]
    \/ Present(a[1], b[2])
    \/ Present(b[1], a[2])

GreenSet(c) == {x \in graph.verts : c[x] = KwPalette[1]}

\* the number of vertices the initial coloring does not color green
NotGreen == Cardinality(graph.verts \ GreenSet(coloring))

Gsl2Run == Returned /\ update_rule = "gsl2_rule"

\* C12: under GSL2 a green vertex never changes color, so along a run_rule
\* trajectory the set of green vertices only grows, and run_rule with
\* gsl2_rule returns stabilized = True whenever num_steps >= k + 1, where k is
\* the number of vertices the initial coloring does not color green.
C12_Gsl2Stabilizes ==
    Gsl2Run =>
        /\ \A j \in 1..Len(s) : GreenSet(s[j]) \subseteq GreenSet(RuleOf(s[j]))
        /\ \A j \in 1..(Len(s) - 1) : GreenSet(s[j]) \subseteq GreenSet(s[j + 1])
        /\ num_steps >= NotGreen + 1 => stabilized

\* a run from two vertices that are not green, which took all of its three
\* applications to stabilize
C12_Witness ==
    /\ Gsl2Run
    /\ NotGreen = 2
    /\ num_steps = 3
    /\ evals = 3
    /\ Len(s) = 3
    /\ stabilized

====
